---- MODULE Spec2Model ----
(***************************************************************************)
(* Live turn-by-turn navigation of truckplanner-pro: the TurnByTurn-       *)
(* Navigation component (position samples, off-route latch, recalculation  *)
(* cooldown, waypoint progression, heading smoothing, driving-time         *)
(* interval and break warning, traffic label) together with the part of    *)
(* its parent SimpleRoutePlanner that answers recalculations, closes the   *)
(* session and runs the traffic interval.                                  *)
(*                                                                         *)
(* React is modelled by two copies of the component state: st is the       *)
(* state React holds (what the setters have written), rd is the snapshot   *)
(* the closures of the last render captured.  Handlers read rd and write   *)
(* st; Render copies st into rd and runs the effects.                      *)
(*                                                                         *)
(* Coordinates are metres east/north on the local tangent plane; the       *)
(* great-circle distance of calcDist is the Euclidean distance there.      *)
(* Headings are kept in units of 1/Scale degree.                           *)
(***************************************************************************)
EXTENDS Integers, Sequences, FiniteSets, TLC

VARIABLES
  now,                  \* Date.now(), ms
  props,                \* parent state handed down as props: route, totalDistance, totalDuration
  st,                   \* component state as held by React
  rd,                   \* what the closures of the last render see
  lastRecalculateTime,  \* useRef(0)
  calls,                \* every onRecalculateRoute invocation: time, origin, status
  pendingSamples,       \* position callbacks delivered since the last render
  headingSamples,       \* samples that carried a heading so far
  trip,                 \* props fixed for the session: waypoints, endCoords, trafficDelay
  life,                 \* what lives outside React state: isNavigating of the parent, the
                        \* geolocation watch, the driving interval, the traffic interval
  hist,                 \* smoothHeading when the last position sample arrived (history)
  ev                    \* the last step taken and what it computed (history)

vars ==
  <<now, props, st, rd, lastRecalculateTime, calls, pendingSamples, headingSamples,
    trip, life, hist, ev>>

(*************************** bounds of the model ***************************)
EpochStart == 100000        \* Date.now() when the session starts
MaxTicks == 3               \* the clock advances this many steps
MaxPendingSamples == 2      \* samples delivered before React re-renders
MaxHeadingSamples == 2      \* samples with a heading in one run
MaxCalls == 3               \* routing requests in one run
Scale == 400                \* heading units per degree
MaxMinutes == 242           \* minutes of navigation followed by the driving-time runs
MaxLifeSteps == 5           \* half minutes followed by the runs that close the session

(************************ numbers written in the code **********************)
OFF_ROUTE_M == 50
ARRIVAL_M == 200
COOLDOWN_MS == 30000
SPEED_THRESHOLD == 10
FALLBACK_SPEED == 70
DEADBAND_DEG == 3
SMOOTH_PERCENT == 15
TICK_MS == 60000
BREAK_MIN == 240
HEAVY_DELAY == 20
SLOW_DELAY == 5

\* the clock moves in steps of half the cooldown, so that attempts fall before,
\* exactly at and after its end
TimeStep == COOLDOWN_MS \div 2

NoHeading == -1     \* pos.coords.heading null or NaN
NoSpeed == -1       \* pos.coords.speed null or NaN
Infinity == -1      \* minDist before any vertex was seen
NoTimer == -1       \* a ref that holds no interval
NoDestination == <<>>   \* currentDestination when allDestinations is empty (undefined)

(******************************* geometry **********************************)
A == <<0, 0>>
B == <<1000, 0>>
W == <<500, 0>>

Route1 == <<A, B>>
Route2 == <<<<0, 3000>>, <<500, 0>>, B>>
EmptyRoute == <<>>

\* what the routing backend may answer: geometry, distance (m), duration (min)
RouteOptions ==
  { [route |-> Route2, totalDistance |-> 1000, totalDuration |-> 2],
    [route |-> EmptyRoute, totalDistance |-> 0, totalDuration |-> 0] }

\* what the first route calculation handed to the session
InitialRoutes ==
  { [route |-> Route1, totalDistance |-> 1000, totalDuration |-> 2] }

startCoords == A
endCoords == B

\* a destination as the component receives it: where it is, and whether its
\* latitude or longitude is 0 or missing (falsy in d.lat && d.lon)
Dest(at, zero) == [at |-> at, zero |-> zero]

\* the session of the other specifications: one waypoint, then the destination
DefaultTrip == [waypoints |-> <<Dest(W, FALSE)>>, endCoords |-> Dest(endCoords, FALSE), trafficDelay |-> 0]

\* waypoints prop followed by the final destination, after the filter
allDestinations ==
  LET all == trip.waypoints \o <<trip.endCoords>>
      kept == SelectSeq(all, LAMBDA d : ~d.zero)
  IN [i \in 1..Len(kept) |-> kept[i].at]

Abs(x) == IF x < 0 THEN -x ELSE x
Max(a, b) == IF a > b THEN a ELSE b
Min(a, b) == IF a < b THEN a ELSE b

RECURSIVE SqrtBetween(_, _, _)
SqrtBetween(n, lo, hi) ==
  IF lo >= hi THEN lo
  ELSE LET mid == (lo + hi + 1) \div 2
       IN IF mid * mid <= n THEN SqrtBetween(n, mid, hi) ELSE SqrtBetween(n, lo, mid - 1)

ISqrt(n) == SqrtBetween(n, 0, 46340)

\* square of the distance in metres
calcDistSq(p, q) == (p[1] - q[1]) * (p[1] - q[1]) + (p[2] - q[2]) * (p[2] - q[2])
\* the distance in whole metres (the source returns km as a double)
calcDist(p, q) == ISqrt(calcDistSq(p, q))

\* Math.round(x / y) for x >= 0, y > 0
RoundDiv(x, y) == (2 * x + y) \div (2 * y)

(************************** off-route detection ****************************)
\* the test of a distance left in km against 50
closeEnough_Km(dist) == ISqrt(dist) \div 1000 < OFF_ROUTE_M

\* dist < 50, on the squared distance
closeEnough(dist) == dist < OFF_ROUTE_M * OFF_ROUTE_M

\* a final test that counts exactly 50 m as off the route
farFromRoute_Inclusive(minDist) == minDist = Infinity \/ minDist >= OFF_ROUTE_M * OFF_ROUTE_M

\* return minDist > 50, on the squared distance
farFromRoute(minDist) == minDist = Infinity \/ minDist > OFF_ROUTE_M * OFF_ROUTE_M

\* the for loop of checkIfOffRoute from vertex i on, minDist being the minimum so far
RECURSIVE scanRoute(_, _, _, _)
scanRoute(route, p, i, minDist) ==
  IF i > Len(route) THEN farFromRoute(minDist)
  ELSE LET dist == calcDistSq(p, route[i])
           m == IF minDist = Infinity \/ dist < minDist THEN dist ELSE minDist
       IN IF closeEnough(dist) THEN FALSE ELSE scanRoute(route, p, i + 1, m)

\* checkIfOffRoute without its first line
checkIfOffRoute_NoGuard(route, p) == scanRoute(route, p, 1, Infinity)

checkIfOffRoute(route, p) ==
  IF Len(route) = 0 THEN FALSE ELSE scanRoute(route, p, 1, Infinity)

\* a callback that stores the classification of every sample
raiseOffRoute_Tracks(offRoute, isOffRoute, current) == offRoute

\* a callback that raises on every off-route sample, flagged already or not
raiseOffRoute_Always(offRoute, isOffRoute, current) ==
  IF offRoute THEN TRUE ELSE current

\* setIsOffRoute / setShowRecalculatePrompt of the position callback
raiseOffRoute(offRoute, isOffRoute, current) ==
  IF offRoute /\ ~isOffRoute THEN TRUE ELSE current

(**************************** heading smoothing ****************************)
Deg(d) == d * Scale

\* the % of JavaScript: the sign of the dividend
JsMod(a, n) == IF a >= 0 THEN a % n ELSE -((-a) % n)

\* a factor of 2 in place of 0.15
Times015_Double(x) == 2 * x

\* x * 0.15, cut to the grid of 1/Scale degree
Times015(x) ==
  IF x >= 0 THEN (x * SMOOTH_PERCENT) \div 100 ELSE -(((-x) * SMOOTH_PERCENT) \div 100)

\* the difference taken without the way round 0/360
normalizedDiff_NoWrap(heading, smoothHeading) == Abs(heading - smoothHeading)

normalizedDiff(heading, smoothHeading) ==
  LET diff == Abs(heading - smoothHeading)
  IN IF diff > Deg(180) THEN Deg(360) - diff ELSE diff

\* the smoothing step without its last correction (smoothHeading - heading > 180)
newHeading_NoForwardWrap(heading, smoothHeading) ==
  LET n1 == smoothHeading + Times015(heading - smoothHeading)
      n2 == IF heading - smoothHeading > Deg(180)
            THEN smoothHeading - Times015(Deg(360) - heading + smoothHeading)
            ELSE n1
  IN JsMod(JsMod(n2, Deg(360)) + Deg(360), Deg(360))

\* the smoothing step without its first correction (heading - smoothHeading > 180)
newHeading_NoBackwardWrap(heading, smoothHeading) ==
  LET n1 == smoothHeading + Times015(heading - smoothHeading)
      n3 == IF smoothHeading - heading > Deg(180)
            THEN smoothHeading + Times015(Deg(360) - smoothHeading + heading)
            ELSE n1
  IN JsMod(JsMod(n3, Deg(360)) + Deg(360), Deg(360))

newHeading(heading, smoothHeading) ==
  LET n1 == smoothHeading + Times015(heading - smoothHeading)
      n2 == IF heading - smoothHeading > Deg(180)
            THEN smoothHeading - Times015(Deg(360) - heading + smoothHeading)
            ELSE n1
      n3 == IF smoothHeading - heading > Deg(180)
            THEN smoothHeading + Times015(Deg(360) - smoothHeading + heading)
            ELSE n2
  IN JsMod(JsMod(n3, Deg(360)) + Deg(360), Deg(360))

\* the third effect of MapFollower: the value of smoothHeading after it ran
smoothEffect(heading, smoothHeading, isFollowing) ==
  IF isFollowing /\ heading # NoHeading /\ normalizedDiff(heading, smoothHeading) > Deg(DEADBAND_DEG)
  THEN newHeading(heading, smoothHeading)
  ELSE smoothHeading

(****************************** traffic label ******************************)
\* a label whose thresholds belong to the upper class
currentTrafficStatus_Inclusive(trafficDelay) ==
  IF trafficDelay >= HEAVY_DELAY THEN "heavy"
  ELSE IF trafficDelay >= SLOW_DELAY THEN "slow" ELSE "normal"

currentTrafficStatus(trafficDelay) ==
  IF trafficDelay > HEAVY_DELAY THEN "heavy"
  ELSE IF trafficDelay > SLOW_DELAY THEN "slow" ELSE "normal"

(******************************** state ************************************)
NoEvent ==
  [type |-> "init", accepted |-> FALSE, offRoute |-> FALSE, ran |-> FALSE,
   speed |-> NoSpeed, issued |-> FALSE, arrived |-> FALSE]

\* the compass at mount: useState(0) for heading and smoothHeading, the map follows
AtMount == [heading |-> 0, smoothHeading |-> 0, following |-> TRUE]

\* a session: the route is one of routes, the destinations one of trips;
\* compass gives heading and smoothHeading and whether the last render had the
\* map following (it has not when the recenter button was just pressed); saws
\* is what the traffic callback may have captured as route
InitSession(routes, trips, compass, saws) ==
  /\ now = EpochStart
  /\ props \in routes
  /\ trip \in trips
  /\ \E c \in compass, saw \in saws :
       /\ st = [currentPosition |-> startCoords,
                heading |-> c.heading,
                smoothHeading |-> c.smoothHeading,
                speed |-> 0,
                isFollowing |-> TRUE,
                currentWaypointIndex |-> 0,
                distanceToNextWaypoint |-> 0,
                timeToNextWaypoint |-> 0,
                remainingDistance |-> props.totalDistance,
                remainingTime |-> props.totalDuration,
                progressPercent |-> 0,
                isOffRoute |-> FALSE,
                showRecalculatePrompt |-> FALSE,
                drivingTime |-> 0,
                showBreakWarning |-> FALSE]
       /\ rd = [s |-> [st EXCEPT !.isFollowing = c.following],
                route |-> props.route, totalDistance |-> props.totalDistance,
                trafficStatus |-> currentTrafficStatus(trip.trafficDelay)]
       \* the route was calculated and the traffic interval started before Go
       \* was pressed: its callback saw isNavigating false; the first render
       \* registered the watch and the driving interval
       /\ life = [isNavigating |-> TRUE,
                  watchId |-> TRUE, watches |-> 1,
                  drivingInterval |-> now, intervals |-> 1,
                  trafficCheckInterval |-> now,
                  trafficSaw |-> [route |-> saw, isNavigating |-> FALSE]]
       /\ hist = [smoothAtSample |-> c.smoothHeading]
  /\ lastRecalculateTime = 0
  /\ calls = <<>>
  /\ pendingSamples = 0
  /\ headingSamples = 0
  /\ ev = NoEvent

\* the session as it is mounted after the first route calculation
InitWith(routes, trips) == InitSession(routes, trips, {AtMount}, {FALSE})

InitFrom(routes) == InitWith(routes, {DefaultTrip})

Init == InitFrom(InitialRoutes)

\* allDestinations[currentWaypointIndex] || allDestinations[0]
currentDestination(i) ==
  IF i + 1 \in DOMAIN allDestinations THEN allDestinations[i + 1]
  ELSE IF Len(allDestinations) > 0 THEN allDestinations[1]
  ELSE NoDestination

\* React re-renders when a setter stored a new value or the parent re-rendered
RenderNeeded ==
  \/ pendingSamples > 0
  \/ st # rd.s
  \/ props.route # rd.route
  \/ props.totalDistance # rd.totalDistance

(******************************* actions ***********************************)
\* an updater that starts again at the first destination after the last
advanceWaypoint_Wraps(prev) == IF prev + 1 >= Len(allDestinations) THEN 0 ELSE prev + 1

\* prev => prev + 1 of setCurrentWaypointIndex
advanceWaypoint(prev) == prev + 1

\* the success callback of watchPosition, for a sample at p with heading h and speed s (m/s)
PositionSample(p, h, s) ==
  /\ life.watches > 0
  /\ pendingSamples < MaxPendingSamples
  /\ h # NoHeading => headingSamples < MaxHeadingSamples
  /\ LET avgSpeed == IF rd.s.speed > SPEED_THRESHOLD THEN rd.s.speed ELSE FALLBACK_SPEED
         dest == currentDestination(rd.s.currentWaypointIndex)
         hasDest == dest # NoDestination
         distToNext == IF hasDest THEN calcDist(p, dest) ELSE 0
         arrived == /\ hasDest
                    /\ calcDistSq(p, dest) < ARRIVAL_M * ARRIVAL_M
                    /\ rd.s.currentWaypointIndex < Len(allDestinations) - 1
         hasTotal == rd.totalDistance # 0
         remainingToEnd == calcDist(p, endCoords)
         offRoute == checkIfOffRoute(rd.route, p)
     IN /\ st' = [st EXCEPT
                   !.currentPosition = p,
                   !.heading = IF h # NoHeading THEN h ELSE @,
                   !.speed = IF s # NoSpeed THEN RoundDiv(s * 36, 10) ELSE @,
                   !.distanceToNextWaypoint = IF hasDest THEN Max(0, distToNext) ELSE @,
                   !.timeToNextWaypoint =
                      IF hasDest THEN RoundDiv(distToNext * 60, 1000 * avgSpeed) ELSE @,
                   !.currentWaypointIndex = IF arrived THEN advanceWaypoint(@) ELSE @,
                   !.remainingDistance = IF hasTotal THEN Max(0, remainingToEnd) ELSE @,
                   !.progressPercent =
                      IF hasTotal
                      THEN Min(100, ((rd.totalDistance - remainingToEnd) * 100) \div rd.totalDistance)
                      ELSE @,
                   !.remainingTime =
                      IF hasTotal THEN RoundDiv(remainingToEnd * 60, 1000 * avgSpeed) ELSE @,
                   !.isOffRoute = raiseOffRoute(offRoute, rd.s.isOffRoute, @),
                   !.showRecalculatePrompt = raiseOffRoute(offRoute, rd.s.isOffRoute, @)]
        \* arrived: the step called toast.success for the destination reached
        /\ ev' = [NoEvent EXCEPT !.type = "sample", !.offRoute = offRoute, !.speed = s,
                                 !.arrived = arrived]
  /\ pendingSamples' = pendingSamples + 1
  /\ headingSamples' = IF h # NoHeading THEN headingSamples + 1 ELSE headingSamples
  /\ hist' = [hist EXCEPT !.smoothAtSample = st.smoothHeading]
  /\ UNCHANGED <<now, props, rd, lastRecalculateTime, calls, trip, life>>

\* the dependencies of the tracking effect differ from those of the last render:
\* currentDestination is an object built anew by every render, unless there is
\* none; the others are compared by value
trackingDepsChanged ==
  \/ Len(allDestinations) > 0
  \/ props.totalDistance # rd.totalDistance
  \/ props.route # rd.route
  \/ st.speed # rd.s.speed
  \/ st.isOffRoute # rd.s.isOffRoute
  \/ st.currentWaypointIndex # rd.s.currentWaypointIndex

\* a cleanup that clears nothing
trackingCleanup_None(l) == l

\* the cleanup of the tracking effect: clearWatch and clearInterval on the refs
trackingCleanup(l) ==
  [l EXCEPT !.watches = IF l.watchId THEN @ - 1 ELSE @,
            !.intervals = IF l.drivingInterval # NoTimer THEN @ - 1 ELSE @,
            !.watchId = FALSE,
            !.drivingInterval = NoTimer]

\* the body of the tracking effect: watchPosition and setInterval at time t
trackingSetup(l, t) ==
  [l EXCEPT !.watches = @ + 1, !.watchId = TRUE,
            !.intervals = @ + 1, !.drivingInterval = t]

\* React renders the component: the closures see the current state and props,
\* the heading effect of MapFollower runs when one of its dependencies changed,
\* and so does the tracking effect, which registers the watch and the driving
\* interval anew
Render ==
  /\ life.isNavigating
  /\ RenderNeeded
  /\ LET run == \/ st.heading # rd.s.heading
                \/ st.isFollowing # rd.s.isFollowing
                \/ st.smoothHeading # rd.s.smoothHeading
     IN /\ rd' = [s |-> st, route |-> props.route, totalDistance |-> props.totalDistance,
                  trafficStatus |-> currentTrafficStatus(trip.trafficDelay)]
        /\ st' = [st EXCEPT !.smoothHeading =
                    IF run THEN smoothEffect(st.heading, @, st.isFollowing) ELSE @]
        /\ life' = IF trackingDepsChanged THEN trackingSetup(trackingCleanup(life), now) ELSE life
        /\ ev' = [NoEvent EXCEPT !.type = "render", !.ran = run]
  /\ pendingSamples' = 0
  /\ UNCHANGED <<now, props, lastRecalculateTime, calls, headingSamples, trip, hist>>

\* a cooldown test that compares against 30 (seconds) instead of 30000 ms
cooldownElapsed_Seconds(t, last) == t - last > COOLDOWN_MS \div 1000

\* a cooldown test that lets an attempt at exactly 30 s through
cooldownElapsed_AtLeast(t, last) == t - last >= COOLDOWN_MS

\* now - lastRecalculateTime.current > 30000
cooldownElapsed(t, last) == t - last > COOLDOWN_MS

\* what onRecalculateRoute of the parent asks the backend for: every waypoint
\* of the planner, reached or not, and endCoords
routeTargets == [waypoints |-> [i \in DOMAIN trip.waypoints |-> trip.waypoints[i].at],
                 end |-> endCoords]

\* a press of a button of the off-route prompt: the prompt is on the screen
\* (rendered), and no earlier press has hidden it, because React commits the
\* updates of a click handler before it handles the next click
promptClickable == rd.s.showRecalculatePrompt /\ st.showRecalculatePrompt

\* handleRecalculate with a rejected attempt that hides the prompt all the same
ClickRecalculate_HidesAlways ==
  /\ life.isNavigating
  /\ promptClickable
  /\ Len(calls) < MaxCalls
  /\ IF cooldownElapsed(now, lastRecalculateTime)
     THEN /\ lastRecalculateTime' = now
          /\ st' = [st EXCEPT !.isOffRoute = FALSE, !.showRecalculatePrompt = FALSE]
          /\ calls' = Append(calls, [t |-> now, origin |-> rd.s.currentPosition,
                                     targets |-> routeTargets, status |-> "pending"])
          /\ ev' = [NoEvent EXCEPT !.type = "attempt", !.accepted = TRUE]
     ELSE /\ ev' = [NoEvent EXCEPT !.type = "attempt", !.accepted = FALSE]
          /\ st' = [st EXCEPT !.showRecalculatePrompt = FALSE]
          /\ UNCHANGED <<lastRecalculateTime, calls>>
  /\ UNCHANGED <<now, props, rd, pendingSamples, headingSamples, trip, life, hist>>

\* handleRecalculate without its setShowRecalculatePrompt(false)
ClickRecalculate_KeepsPrompt ==
  /\ life.isNavigating
  /\ promptClickable
  /\ Len(calls) < MaxCalls
  /\ IF cooldownElapsed(now, lastRecalculateTime)
     THEN /\ lastRecalculateTime' = now
          /\ st' = [st EXCEPT !.isOffRoute = FALSE]
          /\ calls' = Append(calls, [t |-> now, origin |-> rd.s.currentPosition,
                                     targets |-> routeTargets, status |-> "pending"])
          /\ ev' = [NoEvent EXCEPT !.type = "attempt", !.accepted = TRUE]
     ELSE /\ ev' = [NoEvent EXCEPT !.type = "attempt", !.accepted = FALSE]
          /\ UNCHANGED <<lastRecalculateTime, st, calls>>
  /\ UNCHANGED <<now, props, rd, pendingSamples, headingSamples, trip, life, hist>>

\* handleRecalculate, from the Recalculate button of the off-route prompt
ClickRecalculate ==
  /\ life.isNavigating
  /\ promptClickable
  /\ Len(calls) < MaxCalls
  /\ IF cooldownElapsed(now, lastRecalculateTime)
     THEN /\ lastRecalculateTime' = now
          /\ st' = [st EXCEPT !.isOffRoute = FALSE, !.showRecalculatePrompt = FALSE]
          /\ calls' = Append(calls, [t |-> now, origin |-> rd.s.currentPosition,
                                     targets |-> routeTargets, status |-> "pending"])
          /\ ev' = [NoEvent EXCEPT !.type = "attempt", !.accepted = TRUE]
     ELSE /\ ev' = [NoEvent EXCEPT !.type = "attempt", !.accepted = FALSE]
          /\ UNCHANGED <<lastRecalculateTime, st, calls>>
  /\ UNCHANGED <<now, props, rd, pendingSamples, headingSamples, trip, life, hist>>

\* the Ignore button of the off-route prompt
IgnorePrompt ==
  /\ life.isNavigating
  /\ promptClickable
  /\ st' = [st EXCEPT !.showRecalculatePrompt = FALSE]
  /\ ev' = [NoEvent EXCEPT !.type = "ignore"]
  /\ UNCHANGED <<now, props, rd, lastRecalculateTime, calls, pendingSamples, headingSamples, trip, life, hist>>

\* onRecalculateRoute of the parent: the backend answered request i with a route
RecalcSucceeded(i, answer) ==
  /\ i \in DOMAIN calls
  /\ calls[i].status = "pending"
  /\ calls' = [calls EXCEPT ![i].status = "ok"]
  /\ props' = answer
  /\ ev' = [NoEvent EXCEPT !.type = "recalcOk"]
  /\ UNCHANGED <<now, st, rd, lastRecalculateTime, pendingSamples, headingSamples, trip, life, hist>>

\* a catch block that puts the off-route flag and prompt back
RecalcFailed_Reflags(i) ==
  /\ i \in DOMAIN calls
  /\ calls[i].status = "pending"
  /\ calls' = [calls EXCEPT ![i].status = "failed"]
  /\ st' = [st EXCEPT !.isOffRoute = TRUE, !.showRecalculatePrompt = TRUE]
  /\ ev' = [NoEvent EXCEPT !.type = "recalcFailed"]
  /\ UNCHANGED <<now, props, rd, lastRecalculateTime, pendingSamples, headingSamples, trip, life, hist>>

\* a catch block that re-arms the gate so that the user can retry at once
RecalcFailed_Rearms(i) ==
  /\ i \in DOMAIN calls
  /\ calls[i].status = "pending"
  /\ calls' = [calls EXCEPT ![i].status = "failed"]
  /\ lastRecalculateTime' = 0
  /\ ev' = [NoEvent EXCEPT !.type = "recalcFailed"]
  /\ UNCHANGED <<now, props, st, rd, pendingSamples, headingSamples, trip, life, hist>>

\* onRecalculateRoute of the parent: request i failed, the catch block ran
RecalcFailed(i) ==
  /\ i \in DOMAIN calls
  /\ calls[i].status = "pending"
  /\ calls' = [calls EXCEPT ![i].status = "failed"]
  /\ ev' = [NoEvent EXCEPT !.type = "recalcFailed"]
  /\ UNCHANGED <<now, props, st, rd, lastRecalculateTime, pendingSamples, headingSamples, trip, life, hist>>

\* dragstart on the map
UserDrag ==
  /\ life.isNavigating
  /\ st.isFollowing
  /\ st' = [st EXCEPT !.isFollowing = FALSE]
  /\ ev' = [NoEvent EXCEPT !.type = "drag"]
  /\ UNCHANGED <<now, props, rd, lastRecalculateTime, calls, pendingSamples, headingSamples, trip, life, hist>>

\* the recenter button, shown while the map does not follow
handleRecenter ==
  /\ life.isNavigating
  /\ ~rd.s.isFollowing
  /\ st' = [st EXCEPT !.isFollowing = TRUE]
  /\ ev' = [NoEvent EXCEPT !.type = "recenter"]
  /\ UNCHANGED <<now, props, rd, lastRecalculateTime, calls, pendingSamples, headingSamples, trip, life, hist>>

\* an interval registered at start has a tick due at time t
Due(start, t) == start # NoTimer /\ t - start >= TICK_MS

\* a warning raised by every tick from 240 on
breakReached_AtLeast(drivingTime) == drivingTime >= BREAK_MIN

\* prev + 1 === 240
breakReached(drivingTime) == drivingTime = BREAK_MIN

\* the callback of the driving interval
DrivingTick ==
  /\ Due(life.drivingInterval, now)
  /\ st.drivingTime < MaxMinutes
  /\ st' = [st EXCEPT !.drivingTime = @ + 1,
                      !.showBreakWarning = IF breakReached(st.drivingTime + 1) THEN TRUE ELSE @]
  /\ life' = [life EXCEPT !.drivingInterval = @ + TICK_MS]
  /\ ev' = [NoEvent EXCEPT !.type = "drivingTick"]
  /\ UNCHANGED <<now, props, rd, lastRecalculateTime, calls, pendingSamples, headingSamples, trip, hist>>

\* the button of the break warning overlay
DismissBreakWarning ==
  /\ life.isNavigating
  /\ rd.s.showBreakWarning
  /\ st' = [st EXCEPT !.showBreakWarning = FALSE]
  /\ ev' = [NoEvent EXCEPT !.type = "dismissBreak"]
  /\ UNCHANGED <<now, props, rd, lastRecalculateTime, calls, pendingSamples, headingSamples, trip, life, hist>>

\* the callback of the traffic interval of the parent, with the route and
\* isNavigating of the render that started it
TrafficTick ==
  /\ Due(life.trafficCheckInterval, now)
  /\ life' = [life EXCEPT !.trafficCheckInterval = @ + TICK_MS]
  /\ ev' = [NoEvent EXCEPT !.type = "trafficTick",
                           !.issued = life.trafficSaw.route /\ life.trafficSaw.isNavigating]
  /\ UNCHANGED <<now, props, st, rd, lastRecalculateTime, calls, pendingSamples, headingSamples, trip, hist>>

\* onClose: the parent sets isNavigating false, the component unmounts and the
\* cleanup of its tracking effect runs
Close ==
  /\ life.isNavigating
  /\ life' = [trackingCleanup(life) EXCEPT !.isNavigating = FALSE]
  /\ ev' = [NoEvent EXCEPT !.type = "close"]
  /\ UNCHANGED <<now, props, st, rd, lastRecalculateTime, calls, pendingSamples, headingSamples, trip, hist>>

\* the wall clock advances by step, not beyond horizon after the start; React has
\* rendered by then and every tick that was due has run
Elapse(step, horizon) ==
  /\ ~(life.isNavigating /\ RenderNeeded)
  /\ ~Due(life.drivingInterval, now)
  /\ ~Due(life.trafficCheckInterval, now)
  /\ now + step <= EpochStart + horizon
  /\ now' = now + step
  /\ ev' = [NoEvent EXCEPT !.type = "time"]
  /\ UNCHANGED <<props, st, rd, lastRecalculateTime, calls, pendingSamples, headingSamples, trip, life, hist>>

\* the wall clock advances by one step of the recalculation runs
AdvanceTime == Elapse(TimeStep, MaxTicks * TimeStep)

(**************************** specifications *******************************)
\* Spec: the recalculation gate.  Samples on the route (A) and off it, the clock,
\* the prompt's buttons and the backend's answers.
NavPoints == {A, <<0, 51>>}

Next ==
  \/ \E p \in NavPoints : PositionSample(p, NoHeading, NoSpeed)
  \/ Render
  \/ ClickRecalculate
  \/ IgnorePrompt
  \/ \E i \in 1..MaxCalls, answer \in RouteOptions : RecalcSucceeded(i, answer)
  \/ \E i \in 1..MaxCalls : RecalcFailed(i)
  \/ AdvanceTime

Spec == Init /\ [][Next]_vars

\* SpecGeo: the classification of samples.  Samples 49, 50 and 51 m from the
\* straight line of Route1 with the foot at a vertex, near a vertex and in the
\* middle, against Route1, Route2 and the empty route.
GeoPoints ==
  {A, <<0, 49>>, <<0, 50>>, <<0, 51>>, <<9, 49>>, <<10, 49>>, <<500, 49>>, <<500, 51>>}

GeoRoutes ==
  InitialRoutes \cup
    { [route |-> Route2, totalDistance |-> 1000, totalDuration |-> 2],
      [route |-> EmptyRoute, totalDistance |-> 1000, totalDuration |-> 2] }

InitGeo == InitFrom(GeoRoutes)

NextGeo ==
  \/ \E p \in GeoPoints : PositionSample(p, NoHeading, NoSpeed)
  \/ Render
  \/ IgnorePrompt

SpecGeo == InitGeo /\ [][NextGeo]_vars

\* SpecHeading: the heading smoother.  The vehicle stands at the start and the
\* compass turns; HeadingTo359 is the raw heading that takes smoothHeading from
\* 0 to 359 degrees in one step.
HeadingTo359 == Deg(360) - ((Scale * 100 + SMOOTH_PERCENT - 1) \div SMOOTH_PERCENT)

RawHeadings == {NoHeading, Deg(2), Deg(5), Deg(356), HeadingTo359}

NextHeading ==
  \/ \E h \in RawHeadings : PositionSample(startCoords, h, NoSpeed)
  \/ Render
  \/ UserDrag
  \/ handleRecenter

SpecHeading == Init /\ [][NextHeading]_vars

\* SpecTurn: the vehicle stands at the start and the compass swings a quarter
\* turn at once.
TurnHeadings == {NoHeading, Deg(90)}

NextTurn ==
  \/ \E h \in TurnHeadings : PositionSample(startCoords, h, NoSpeed)
  \/ Render

SpecTurn == Init /\ [][NextTurn]_vars

\* SpecStep: one run of the heading effect for every pair of a raw and a smoothed
\* heading of StepHeadings.  The map did not follow while the compass turned,
\* and the recenter button was just pressed.
StepHeadings ==
  {0, Deg(1), Deg(10), Deg(90), Deg(170), Deg(180), Deg(190), Deg(270), Deg(350),
   Deg(359), Deg(360) - 1}

InitStep ==
  InitSession(InitialRoutes, {DefaultTrip},
              [heading : StepHeadings, smoothHeading : StepHeadings, following : {FALSE}],
              {FALSE})

NextStep == Render

SpecStep == InitStep /\ [][NextStep]_vars

\* React runs every render it has scheduled, and the effect after it
SpecStepFair == SpecStep /\ WF_vars(Render)

\* SpecTrip: the trip along the destinations.  Samples near the waypoint and
\* beside the start (off the route, and farther from the destination than the
\* route is long), the prompt's buttons and the backend's answers.
TripPoints == {<<500, 49>>, <<0, 51>>}

NextTrip ==
  \/ \E p \in TripPoints : PositionSample(p, NoHeading, NoSpeed)
  \/ Render
  \/ ClickRecalculate
  \/ IgnorePrompt
  \/ \E i \in 1..MaxCalls, answer \in RouteOptions : RecalcSucceeded(i, answer)
  \/ \E i \in 1..MaxCalls : RecalcFailed(i)

SpecTrip == Init /\ [][NextTrip]_vars

\* SpecEta: the figures of a sample.  The same two points with no speed, 1 m/s
\* (4 km/h) and 6 m/s (22 km/h), for a session with one waypoint and for one
\* whose only destination has longitude 0.
Speeds == {NoSpeed, 1, 6}

TripOptions ==
  { DefaultTrip,
    [waypoints |-> <<>>, endCoords |-> Dest(endCoords, TRUE), trafficDelay |-> 0] }

InitEta == InitWith(InitialRoutes, TripOptions)

NextEta ==
  \/ \E p \in TripPoints, s \in Speeds : PositionSample(p, NoHeading, s)
  \/ Render

SpecEta == InitEta /\ [][NextEta]_vars

\* SpecArrive: a trip with two waypoints, W and W2, before the destination.
\* Samples at the start, near W, near W2 and near the destination; the user
\* may close the session.
W2 == <<750, 0>>
TwoStopTrip ==
  [waypoints |-> <<Dest(W, FALSE), Dest(W2, FALSE)>>, endCoords |-> Dest(endCoords, FALSE),
   trafficDelay |-> 0]

ArrivePoints == {A, <<500, 49>>, <<750, 49>>, <<1000, 49>>}

InitArrive == InitWith(InitialRoutes, {TwoStopTrip})

NextArrive ==
  \/ \E p \in ArrivePoints : PositionSample(p, NoHeading, NoSpeed)
  \/ Render
  \/ Close

SpecArrive == InitArrive /\ [][NextArrive]_vars

\* SpecDrive: hours of driving.  The clock moves in half minutes; position
\* samples arrive during the first minutes only, then the vehicle is followed
\* through its ticks up to MaxMinutes.
HalfMinute == TICK_MS \div 2
SampleWindow == 4 * HalfMinute

NextDrive ==
  \/ (now - EpochStart < SampleWindow /\ PositionSample(startCoords, NoHeading, NoSpeed))
  \/ Render
  \/ DrivingTick
  \/ TrafficTick
  \/ DismissBreakWarning
  \/ Elapse(HalfMinute, MaxMinutes * TICK_MS)

SpecDrive == Init /\ [][NextDrive]_vars

\* SpecLife: the session from Go to Close and after, for every traffic delay
\* around the thresholds of the label.
Delays == {0, 4, 5, 6, 19, 20, 21, 45}

InitLife == InitWith(InitialRoutes, {[DefaultTrip EXCEPT !.trafficDelay = d] : d \in Delays})

NextLife ==
  \/ PositionSample(startCoords, NoHeading, NoSpeed)
  \/ Render
  \/ DrivingTick
  \/ TrafficTick
  \/ Close
  \/ Elapse(HalfMinute, MaxLifeSteps * HalfMinute)

SpecLife == InitLife /\ [][NextLife]_vars

\* SpecPoll: the traffic interval of the parent during and after the session.
\* The interval was started by calculateRoute from a render of the planner:
\* that render had no route yet, or the route of an earlier calculation.
InitPoll == InitSession(InitialRoutes, {DefaultTrip}, {AtMount}, BOOLEAN)

NextPoll ==
  \/ PositionSample(startCoords, NoHeading, NoSpeed)
  \/ Render
  \/ TrafficTick
  \/ Close
  \/ Elapse(HalfMinute, MaxLifeSteps * HalfMinute)

SpecPoll == InitPoll /\ [][NextPoll]_vars

(******************************** claims ***********************************)
CallIssued == Len(calls') = Len(calls) + 1
LastCall == calls[Len(calls)]

\* C1: two recalculation attempts less than 30 s apart lead to at most one
\* call of the routing collaborator: every call is made by one attempt, and any
\* two calls of a session lie at least 30 s apart.
C1_CooldownEnforced ==
  \A i, j \in DOMAIN calls : i < j => calls[j].t - calls[i].t >= COOLDOWN_MS

\* an attempt 15 s after an accepted one was dropped
C1_Witness ==
  /\ ev.type = "attempt" /\ ~ev.accepted
  /\ Len(calls) = 1
  /\ now - LastCall.t > 0 /\ now - LastCall.t < COOLDOWN_MS

C4_FailureKeepsCooldown ==
  [][/\ CallIssued
          => \A i \in DOMAIN calls :
               calls[i].status = "failed" => now - calls[i].t >= COOLDOWN_MS
     /\ ev'.type = "recalcFailed"
          => /\ Len(calls') = Len(calls)
             /\ lastRecalculateTime' = lastRecalculateTime
             /\ st' = st /\ rd' = rd /\ pendingSamples' = pendingSamples]_vars

\* after a failed call a sample raised off-route again, and the attempt that
\* followed less than 30 s after the failed one was dropped
C4_Witness ==
  /\ ev.type = "attempt" /\ ~ev.accepted
  /\ st.isOffRoute
  /\ Len(calls) = 1 /\ LastCall.status = "failed"
  /\ now - LastCall.t < COOLDOWN_MS

\* C5: isOffRoute goes from true to false only in the step of an accepted
\* recalculation; no position sample clears it.
C5_OnlyRecalculationClears ==
  [][(st.isOffRoute /\ ~st'.isOffRoute)
       => (ev'.type = "attempt" /\ ev'.accepted /\ CallIssued)]_vars

\* a sample on the route was processed by a session that is flagged, and it stays flagged
C5_Witness ==
  /\ ev.type = "sample" /\ ~ev.offRoute
  /\ rd.s.isOffRoute /\ st.isOffRoute
  /\ ~checkIfOffRoute(rd.route, st.currentPosition)
  /\ Len(rd.route) > 0

\* the sample of the last step, and the route its callback saw
SampleTaken == ev.type = "sample"
SamplePoint == st.currentPosition

\* for the straight line Route1 from A to B: the distance of p from the line,
\* and whether the foot of the perpendicular lies between A and B
Perpendicular(p) == Abs(p[2])
FootBetween(p) == A[1] <= p[1] /\ p[1] <= B[1]

SetMin(S) == CHOOSE x \in S : \A y \in S : x <= y
\* the square of the least distance from p to a vertex of a non-empty route
MinVertexDistSq(route, p) == SetMin({calcDistSq(p, route[i]) : i \in DOMAIN route})

\* C6 as stated: on the straight line of two points, a sample 51 m from the line is
\* off-route and a sample 49 m from the line is not, wherever the foot lies.
C6_Original ==
  (SampleTaken /\ rd.route = Route1 /\ FootBetween(SamplePoint))
    => /\ Perpendicular(SamplePoint) = 51 => ev.offRoute
       /\ Perpendicular(SamplePoint) = 49 => ~ev.offRoute

\* C6 amended: a sample 51 m from the line is off-route wherever the foot lies; a
\* sample 49 m from the line is not off-route only when it is within 50 m of one
\* of the two points, and is off-route everywhere else along the line.
C6_Amended ==
  (SampleTaken /\ rd.route = Route1 /\ FootBetween(SamplePoint))
    => /\ Perpendicular(SamplePoint) = 51 => ev.offRoute
       /\ Perpendicular(SamplePoint) = 49
            => (ev.offRoute <=>
                  /\ calcDistSq(SamplePoint, A) > OFF_ROUTE_M * OFF_ROUTE_M
                  /\ calcDistSq(SamplePoint, B) > OFF_ROUTE_M * OFF_ROUTE_M)

\* a sample 49 m from the middle of the line was classified off-route
C6_Witness ==
  /\ SampleTaken /\ rd.route = Route1
  /\ SamplePoint = <<500, 49>>
  /\ ev.offRoute

\* C7: on a non-empty route checkIfOffRoute answers true exactly when the least
\* distance to a vertex is more than 50 m; the early exit changes nothing.
C7_VertexMinimum ==
  (SampleTaken /\ Len(rd.route) > 0)
    => (ev.offRoute <=> MinVertexDistSq(rd.route, SamplePoint) > OFF_ROUTE_M * OFF_ROUTE_M)

\* a sample exactly 50 m from the nearest vertex was classified not off-route
C7_Witness ==
  /\ SampleTaken /\ Len(rd.route) > 0
  /\ MinVertexDistSq(rd.route, SamplePoint) = OFF_ROUTE_M * OFF_ROUTE_M
  /\ ~ev.offRoute

\* C8: a position sample handled while the route is empty neither sets isOffRoute
\* nor raises the prompt, and stores the position, the distances and the
\* waypoint progression as usual.
C8_EmptyRouteSuppressed ==
  [][(pendingSamples' = pendingSamples + 1 /\ Len(rd.route) = 0)
       => LET p == st'.currentPosition
              dest == currentDestination(rd.s.currentWaypointIndex)
              near == calcDistSq(p, dest) < ARRIVAL_M * ARRIVAL_M
              last == rd.s.currentWaypointIndex >= Len(allDestinations) - 1
          IN /\ ~ev'.offRoute
             /\ st'.isOffRoute = st.isOffRoute
             /\ st'.showRecalculatePrompt = st.showRecalculatePrompt
             /\ st'.distanceToNextWaypoint = calcDist(p, dest)
             /\ st'.currentWaypointIndex =
                  IF near /\ ~last THEN st.currentWaypointIndex + 1 ELSE st.currentWaypointIndex
             /\ rd.totalDistance # 0 => st'.remainingDistance = calcDist(p, endCoords)]_vars

\* with an empty route a sample far from where the route was reached the waypoint:
\* the index advanced and nothing was flagged
C8_Witness ==
  /\ SampleTaken /\ Len(rd.route) = 0
  /\ SamplePoint = <<500, 49>>
  /\ rd.s.currentWaypointIndex = 0 /\ st.currentWaypointIndex = 1
  /\ ~st.isOffRoute /\ ~st.showRecalculatePrompt

\* the difference of two headings the short way round, and the way from s forward to h
CircDiff(h, s) == Min((h - s) % Deg(360), (s - h) % Deg(360))
Forward(h, s) == (h - s) % Deg(360)

\* the heading effect ran in the last step: rd.s holds the heading and the
\* smoothHeading it read, st.smoothHeading what it left
EffectRan == ev.type = "render" /\ ev.ran /\ rd.s.isFollowing

\* C9: while the raw heading is 3 degrees or less from smoothHeading, the short
\* way round, no step changes smoothHeading.
C9_Deadband ==
  [][CircDiff(st.heading, st.smoothHeading) <= Deg(DEADBAND_DEG)
       => st'.smoothHeading = st.smoothHeading]_vars

\* the effect ran on a raw heading 3 degrees or less from smoothHeading across
\* 0/360 and left smoothHeading as it was
C9_Witness ==
  /\ EffectRan
  /\ Abs(rd.s.heading - rd.s.smoothHeading) > Deg(180)
  /\ CircDiff(rd.s.heading, rd.s.smoothHeading) <= Deg(DEADBAND_DEG)
  /\ st.smoothHeading = rd.s.smoothHeading

\* C10 as stated: the effect run on smoothHeading 359 and raw heading 2 moves
\* smoothHeading forward, past 359 towards 2.
C10_Original ==
  (EffectRan /\ rd.s.smoothHeading = Deg(359) /\ rd.s.heading = Deg(2))
    => /\ st.smoothHeading # Deg(359)
       /\ Forward(st.smoothHeading, Deg(359)) <= Forward(Deg(2), Deg(359))

\* C10 amended: from smoothHeading 359 a raw heading of 2 (3 degrees ahead, inside
\* the deadband) leaves smoothHeading at 359; a raw heading more than 3 and less
\* than 180 degrees ahead across 0, such as 5, moves smoothHeading forward by 0.15
\* of the difference, never backward through 180.
C10_Amended ==
  (EffectRan /\ rd.s.smoothHeading = Deg(359))
    => LET ahead == Forward(rd.s.heading, Deg(359))
       IN /\ rd.s.heading = Deg(2) => st.smoothHeading = Deg(359)
          /\ (ahead > Deg(DEADBAND_DEG) /\ ahead < Deg(180))
               => /\ Forward(st.smoothHeading, Deg(359)) > 0
                  /\ Forward(st.smoothHeading, Deg(359)) = Times015(ahead)

\* the effect ran on smoothHeading 359 and raw heading 5 and moved past 359
C10_Witness ==
  /\ EffectRan
  /\ rd.s.smoothHeading = Deg(359) /\ rd.s.heading = Deg(5)
  /\ st.smoothHeading > Deg(359)

\* the most one smoothing step can move smoothHeading: 0.15 x 180 degrees
MaxStep == (SMOOTH_PERCENT * Deg(180)) \div 100

\* C11 as stated: when a position sample arrives, smoothHeading is at most
\* 0.15 x 180 = 27 degrees, the short way round, from what it was when the
\* sample before it arrived.
C11_Original ==
  [][ev'.type = "sample"
       => CircDiff(st.smoothHeading, hist.smoothAtSample) <= MaxStep]_vars

\* C12: no step of a session (position sample, render, recalculation attempt,
\* answer of the backend replacing the route, failure) decreases
\* currentWaypointIndex.
C12_IndexNeverDecreases ==
  [][st'.currentWaypointIndex >= st.currentWaypointIndex]_vars

\* the waypoint was reached, the route was replaced by the answer to a
\* recalculation, and a sample handled on the new route left the index where it was
C12_Witness ==
  /\ ev.type = "sample"
  /\ rd.route = Route2
  /\ rd.s.currentWaypointIndex = 1 /\ st.currentWaypointIndex = 1
  /\ \E i \in DOMAIN calls : calls[i].status = "ok"

\* C13 as stated: in every state of a session started with a final destination
\* the destination list is not empty and currentWaypointIndex is an index of it
\* (counted from 0), however samples and renders interleave.
C13_Original ==
  /\ Len(allDestinations) > 0
  /\ 0 <= st.currentWaypointIndex
  /\ st.currentWaypointIndex < Len(allDestinations)

\* C14 as stated: after every position sample progressPercent lies in [0, 100],
\* also when the sample is farther from the final destination than totalDistance.
C14_Original ==
  SampleTaken => (0 <= st.progressPercent /\ st.progressPercent <= 100)

\* the speed in km/h a sample with speed s (m/s) reports, and the speed the
\* figures of that sample are to be computed with: its own when above 10 km/h,
\* 70 km/h when it is 10 km/h or less, or missing
SampleKmh(s) == RoundDiv(s * 36, 10)
EffectiveSpeed(s) ==
  IF s # NoSpeed /\ SampleKmh(s) > SPEED_THRESHOLD THEN SampleKmh(s) ELSE FALLBACK_SPEED

\* C15 as stated: the time to the next waypoint and the remaining time stored by
\* a position sample are computed with that sample's own speed when it is above
\* 10 km/h, and with 70 km/h otherwise.
C15_Original ==
  SampleTaken
    => LET v == EffectiveSpeed(ev.speed)
           dest == currentDestination(rd.s.currentWaypointIndex)
       IN /\ rd.totalDistance # 0
               => st.remainingTime = RoundDiv(calcDist(SamplePoint, endCoords) * 60, 1000 * v)
          /\ dest # NoDestination
               => st.timeToNextWaypoint = RoundDiv(calcDist(SamplePoint, dest) * 60, 1000 * v)

\* a sample that reports 4 km/h was handled by a callback that had seen 22 km/h:
\* its figures are those of 22 km/h, not of 70 km/h
C15_StaleSpeed ==
  /\ SampleTaken /\ ev.speed # NoSpeed
  /\ SampleKmh(ev.speed) <= SPEED_THRESHOLD
  /\ rd.s.speed > SPEED_THRESHOLD
  /\ st.remainingTime = RoundDiv(calcDist(SamplePoint, endCoords) * 60, 1000 * rd.s.speed)
  /\ st.remainingTime # RoundDiv(calcDist(SamplePoint, endCoords) * 60, 1000 * FALLBACK_SPEED)

\* C16: showBreakWarning goes from false to true only in the tick of the driving
\* interval that takes drivingTime to 240; that tick raises it, and no later
\* tick (241 and beyond) raises it, also after it was dismissed.  drivingTime
\* only grows, by one per tick, so that tick occurs at most once in a session.
C16_WarningOnceAt240 ==
  [][/\ (~st.showBreakWarning /\ st'.showBreakWarning)
          => (ev'.type = "drivingTick" /\ st'.drivingTime = BREAK_MIN)
     /\ (ev'.type = "drivingTick" /\ st'.drivingTime = BREAK_MIN) => st'.showBreakWarning
     /\ st'.drivingTime >= st.drivingTime
     /\ ev'.type = "drivingTick" => st'.drivingTime = st.drivingTime + 1
     /\ st'.drivingTime # st.drivingTime => ev'.type = "drivingTick"]_vars

\* the warning was raised at 240 and dismissed, and the tick to 241 left it hidden
C16_Witness ==
  /\ ev.type = "drivingTick"
  /\ st.drivingTime = BREAK_MIN + 1
  /\ ~rd.s.showBreakWarning /\ ~st.showBreakWarning

\* nothing is waiting to run: no render and no tick is due
Settled ==
  /\ ~RenderNeeded
  /\ ~Due(life.drivingInterval, now)
  /\ ~Due(life.trafficCheckInterval, now)

\* C17 as stated: while navigation is active drivingTime counts the whole minutes
\* of navigation elapsed, whatever samples and state changes occur in between.
C17_Original ==
  (life.isNavigating /\ Settled) => st.drivingTime = (now - EpochStart) \div TICK_MS

\* two minutes into a session that received a position sample every half
\* minute, drivingTime is still 0
C17_Stalled ==
  /\ life.isNavigating /\ Settled
  /\ now - EpochStart = 2 * TICK_MS
  /\ st.drivingTime = 0

\* C18 as stated: once the session has ended, no position callback, no tick of
\* the driving interval and no tick of the traffic interval occurs.
C18_Original ==
  [][~life.isNavigating => ev'.type \notin {"sample", "drivingTick", "trafficTick"}]_vars

\* the session was closed, its watch and its driving interval are gone, and the
\* traffic interval of the parent ticked after that and is still registered
C18_TrafficTickAfterClose ==
  /\ ~life.isNavigating
  /\ life.watches = 0 /\ life.intervals = 0 /\ life.drivingInterval = NoTimer
  /\ ev.type = "trafficTick"
  /\ life.trafficCheckInterval # NoTimer

\* C19 as stated: no session with an empty destination list gets as far as
\* handling a position sample.
C19_Original ==
  SampleTaken => Len(allDestinations) > 0

\* a session whose destination list is empty handled a sample: it stored the
\* position and the distance to endCoords, and left the waypoint figures alone
C19_EmptySessionRuns ==
  /\ SampleTaken
  /\ Len(allDestinations) = 0
  /\ SamplePoint = <<0, 51>>
  /\ st.remainingDistance = calcDist(SamplePoint, endCoords)
  /\ st.distanceToNextWaypoint = 0 /\ st.currentWaypointIndex = 0

\* C20: in every state of a session, whatever its samples, ticks and renders,
\* the traffic label the render computed is heavy exactly when the delay is more
\* than 20, slow exactly when it is more than 5 and at most 20, and normal
\* exactly when it is at most 5.
C20_TrafficLabel ==
  LET d == trip.trafficDelay
  IN /\ rd.trafficStatus \in {"heavy", "slow", "normal"}
     /\ rd.trafficStatus = "heavy" <=> d > HEAVY_DELAY
     /\ rd.trafficStatus = "slow" <=> (SLOW_DELAY < d /\ d <= HEAVY_DELAY)
     /\ rd.trafficStatus = "normal" <=> d <= SLOW_DELAY

\* a render after a position sample and a driving tick computed slow for a delay of 20
C20_Witness ==
  /\ ev.type = "render"
  /\ trip.trafficDelay = HEAVY_DELAY
  /\ rd.trafficStatus = "slow"
  /\ rd.s.drivingTime > 0 /\ rd.s.currentPosition = startCoords

\* C21 as stated: currentWaypointIndex changes only in the step of a position
\* sample, by exactly one and with one notification, and only when its value
\* before the step is not the last index and the sample is within 200 m of the
\* destination at that value; so no destination is passed over without a
\* sample within 200 m of it.
C21_Original ==
  [][/\ st'.currentWaypointIndex # st.currentWaypointIndex
          => /\ ev'.type = "sample" /\ ev'.arrived
             /\ st'.currentWaypointIndex = st.currentWaypointIndex + 1
             /\ st.currentWaypointIndex < Len(allDestinations) - 1
             /\ calcDistSq(st'.currentPosition, allDestinations[st.currentWaypointIndex + 1])
                  < ARRIVAL_M * ARRIVAL_M
     /\ (ev'.type = "sample" /\ ev'.arrived)
          => st'.currentWaypointIndex = st.currentWaypointIndex + 1]_vars

\* two samples near W handled before a render took the index from 0 to 2: W2
\* was passed over with no sample within 200 m of it
C21_WaypointSkipped ==
  /\ SampleTaken /\ ev.arrived
  /\ Len(allDestinations) = 3
  /\ rd.s.currentWaypointIndex = 0 /\ st.currentWaypointIndex = 2
  /\ calcDistSq(SamplePoint, W2) >= ARRIVAL_M * ARRIVAL_M

\* the sample of the step is within 200 m of the final destination
NearFinal(p) == calcDistSq(p, endCoords) < ARRIVAL_M * ARRIVAL_M

\* C22 as stated: a sample within 200 m of the final destination, handled while
\* currentWaypointIndex is the last index, leaves the index as it is and is
\* signalled (the only signal the callback has is its arrival notification);
\* and the session ends in no step but the user's Close.
C22_Original ==
  [][/\ (/\ ev'.type = "sample"
         /\ st.currentWaypointIndex = Len(allDestinations) - 1
         /\ NearFinal(st'.currentPosition))
          => /\ st'.currentWaypointIndex = st.currentWaypointIndex
             /\ ev'.arrived
     /\ (life.isNavigating /\ ~life'.isNavigating) => ev'.type = "close"]_vars

\* at the last index a sample within 200 m of the final destination changed the
\* position and nothing else that tells of an arrival: no notification, the
\* index as before, the session open
C22_SilentArrival ==
  /\ SampleTaken /\ ~ev.arrived
  /\ rd.s.currentWaypointIndex = Len(allDestinations) - 1
  /\ st.currentWaypointIndex = Len(allDestinations) - 1
  /\ NearFinal(SamplePoint)
  /\ life.isNavigating


\* C23: every accepted recalculation, in one step, calls the routing
\* collaborator exactly once with the coordinate of the most recent position
\* sample as origin and the session's destinations as targets, sets
\* lastRecalculateTime to the current time and hides the off-route prompt.
C23_Original ==
  [][(ev'.type = "attempt" /\ ev'.accepted) =>
        /\ Len(calls') = Len(calls) + 1
        /\ LastCall'.origin = st.currentPosition
        /\ LastCall'.targets.waypoints = [i \in DOMAIN trip.waypoints |-> trip.waypoints[i].at]
        /\ LastCall'.targets.end = endCoords
        /\ lastRecalculateTime' = now
        /\ ~st'.showRecalculatePrompt]_vars

\* an accepted recalculation was sent from the position of the last render
\* although a later sample had already moved currentPosition
C23_StaleOrigin ==
  /\ ev.type = "attempt"
  /\ ev.accepted
  /\ Len(calls) > 0
  /\ LastCall.origin # st.currentPosition
  /\ LastCall.origin = rd.s.currentPosition


\* C24: a recalculation attempt made less than 30 s after the last accepted one
\* changes nothing: the routing collaborator is not called, and
\* lastRecalculateTime, isOffRoute and the off-route prompt are unchanged; the
\* attempt is not queued: a call is only ever made in the step of an attempt
\* that passes the gate at that moment.
C24_RejectedAttemptNoEffect ==
  [][/\ (ev'.type = "attempt" /\ Len(calls) > 0 /\ now - lastRecalculateTime < COOLDOWN_MS) =>
          /\ ~ev'.accepted
          /\ calls' = calls
          /\ lastRecalculateTime' = lastRecalculateTime
          /\ st'.isOffRoute = st.isOffRoute
          /\ st'.showRecalculatePrompt = st.showRecalculatePrompt
     /\ CallIssued => (ev'.type = "attempt" /\ ev'.accepted /\ now - lastRecalculateTime > COOLDOWN_MS)]_vars

\* an attempt 15 s after an accepted one was dropped, with the prompt still shown
C24_Witness ==
  /\ ev.type = "attempt"
  /\ ~ev.accepted
  /\ Len(calls) > 0
  /\ now - lastRecalculateTime = TimeStep
  /\ st.showRecalculatePrompt
  /\ st.isOffRoute


\* C25: for a smoothed heading s and a raw heading h in [0, 360) whose circular
\* difference d exceeds 3 degrees, one run of the smoothing effect moves s by
\* 0.15 * d along the shorter arc from s towards h (either way when d is
\* exactly 180 degrees), also across 0/360, and the result is in [0, 360).
C25_ShorterArcStep ==
  [][(/\ ev'.type = "render"
      /\ ev'.ran
      /\ st.isFollowing
      /\ st.heading # NoHeading
      /\ CircDiff(st.heading, st.smoothHeading) > Deg(DEADBAND_DEG)) =>
       LET h == st.heading
           s == st.smoothHeading
           d == CircDiff(h, s)
           r == st'.smoothHeading
       IN /\ 0 <= r
          /\ r < Deg(360)
          /\ \/ Forward(h, s) <= Deg(180) /\ r = (s + Times015(d)) % Deg(360)
             \/ Forward(h, s) >= Deg(180) /\ r = (s - Times015(d)) % Deg(360)]_vars

\* the effect ran on a pair exactly 180 degrees apart, the raw heading below
\* the smoothed one, and moved the smoothed heading
C25_Witness ==
  /\ ev.type = "render"
  /\ ev.ran
  /\ rd.s.smoothHeading - rd.s.heading = Deg(180)
  /\ st.smoothHeading = rd.s.smoothHeading - Times015(Deg(180))


\* C26 as stated: while navigation is active and a route exists, every tick of
\* the traffic interval issues a traffic check, and no tick issues one while
\* navigation is not active.
C26_Original ==
  [][ev'.type = "trafficTick" => (ev'.issued <=> (life.isNavigating /\ Len(props.route) > 0))]_vars

\* the traffic interval ticked during navigation, with a route in the session
\* and a route in the closure of its callback, and issued no check
C26_SilentTick ==
  /\ ev.type = "trafficTick"
  /\ life.isNavigating
  /\ Len(props.route) > 0
  /\ life.trafficSaw.route
  /\ ~ev.issued


\* C27: whenever the off-route prompt is shown, isOffRoute is true; the prompt
\* is raised only by a position sample, together with the change of isOffRoute
\* from false to true, and an accepted recalculation clears both together.
C27_PromptImpliesOffRoute ==
  /\ [](st.showRecalculatePrompt => st.isOffRoute)
  /\ [][/\ (~st.showRecalculatePrompt /\ st'.showRecalculatePrompt) =>
             (ev'.type = "sample" /\ ~st.isOffRoute /\ st'.isOffRoute)
        /\ (ev'.type = "attempt" /\ ev'.accepted) =>
             (st.isOffRoute /\ st.showRecalculatePrompt /\ ~st'.isOffRoute /\ ~st'.showRecalculatePrompt)]_vars

\* an accepted recalculation has just cleared the flag and the prompt that a
\* sample had raised together and a render had shown
C27_Witness ==
  /\ ev.type = "attempt"
  /\ ev.accepted
  /\ rd.s.isOffRoute /\ rd.s.showRecalculatePrompt
  /\ ~st.isOffRoute /\ ~st.showRecalculatePrompt


\* the prompt was dismissed with Ignore: the flag is up and the prompt is down
Ignored == st.isOffRoute /\ ~st.showRecalculatePrompt

\* C28: after the user dismisses the off-route prompt with Ignore, isOffRoute
\* stays true and the prompt stays hidden for the rest of the session under
\* every later sequence of position samples, so that no recalculation request
\* is issued any more in that session.
C28_IgnoreIsFinal ==
  [][/\ ev'.type = "ignore" => Ignored'
     /\ Ignored => (Ignored' /\ ~CallIssued /\ ev'.type # "attempt")]_vars

\* after Ignore and a render, a sample off the route was handled and raised
\* nothing
C28_Witness ==
  /\ ev.type = "sample"
  /\ ev.offRoute
  /\ Ignored
  /\ rd.s.isOffRoute /\ ~rd.s.showRecalculatePrompt


\* C29: for a fixed raw heading the re-running of the smoothing effect
\* terminates: after finitely many runs smoothHeading is within 3 degrees of
\* the raw heading, and from then on it no longer changes (no new raw heading
\* arrives in SpecStepFair).
C29_EffectTerminates ==
  <>[](/\ CircDiff(st.heading, st.smoothHeading) <= Deg(DEADBAND_DEG)
       /\ st.smoothHeading = rd.s.smoothHeading
       /\ ~RenderNeeded)

\* the effect started half a turn away from the raw heading and has come to
\* rest within 3 degrees of it
C29_Witness ==
  /\ ev.type = "render"
  /\ CircDiff(st.heading, hist.smoothAtSample) = Deg(180)
  /\ CircDiff(st.heading, st.smoothHeading) <= Deg(DEADBAND_DEG)
  /\ ~RenderNeeded


\* C30: at any moment of a navigation session at most one geolocation watch and
\* at most one driving interval registered by the component are active (exactly
\* one of each while the session runs, none after it): every re-run of the
\* tracking effect clears the previous watch and interval before it registers
\* new ones.
C30_NoLeak ==
  /\ life.watches <= 1
  /\ life.intervals <= 1
  /\ life.isNavigating => (life.watches = 1 /\ life.intervals = 1 /\ life.watchId /\ life.drivingInterval # NoTimer)
  /\ ~life.isNavigating => (life.watches = 0 /\ life.intervals = 0)

\* a render after the first minute ran the tracking effect again, and one watch
\* and one interval, registered by that render, are active
C30_Witness ==
  /\ ev.type = "render"
  /\ now > EpochStart
  /\ life.drivingInterval = now
  /\ life.watches = 1
  /\ life.intervals = 1

====
